---- MODULE Spec2Model ----
(***************************************************************************)
(* Model of the 3D lidar scanner repository.                               *)
(*                                                                         *)
(*   Spec      : the scan controller script src/tkinter_da_la.py           *)
(*               (stage serial link, range sensor, sample log).            *)
(*   SpecRecon : the reconstruction GUI src/convertAdjust_et_tu_lidar.py   *)
(*               (load_csv_data, colour mapping, PLY writing), with the    *)
(*               older variant src/convertAdjust.py alongside.             *)
(*                                                                         *)
(* Numbers are fixed point where the code uses floats: rotation of the     *)
(* stage is kept in millidegrees, trigonometric values in hundredths.      *)
(***************************************************************************)
EXTENDS Integers, Sequences, FiniteSets, TLC

VARIABLES
    \* ---- scan controller (src/tkinter_da_la.py) ----
    pc,               \* position of the script
    motor,            \* stage serial port: "none" | "open" | "closed"
    lidar,            \* sensor: "new" | "connected" | "scanning" | "stopped" | "disconnected"
    available,        \* lidar.available
    sent,             \* bytes written to the stage controller, in order
    resp,             \* raw line last read from the stage controller
    warned,           \* whether the last send_motor_cmd printed the mismatch line
    csv_file,         \* sample log: "none" | "open" | "closed"
    csv_rows,         \* data rows written to the sample log, in order
    step,             \* loop variable of the step loop
    scans_collected,  \* sweeps consumed in the current step
    seen,             \* (angle, distance) pairs recorded in the current step
    sweeps_read,      \* per step begun, the sweeps get_data() returned in it
    exc,              \* exception in flight / that ended the run ("none" if none)
    \* ---- reconstruction GUI (src/convertAdjust_et_tu_lidar.py) ----
    csv_disk,             \* lines of the sample log offered by the file dialog
    CLOCKWISE_ROTATION,   \* the module-level rotation flag
    current_csv_file,     \* "none", or the path selected last
    text_box,             \* messages appended by log_message
    ply_folder,           \* whether the PLY directory exists
    ply_files,            \* suffix -> [exists, points]: the mesh files written
    vis_runs,             \* point clouds downsampled and shown
    ops                   \* GUI events handled so far

ctl_vars == <<pc, motor, lidar, available, sent, resp, warned, csv_file,
              csv_rows, step, scans_collected, seen, sweeps_read, exc>>

recon_vars == <<csv_disk, CLOCKWISE_ROTATION, current_csv_file, text_box,
                ply_folder, ply_files, vis_runs, ops>>

vars == <<ctl_vars, recon_vars>>

-----------------------------------------------------------------------------
(* Bounds and program constants of the scan controller *)

\* steps = 400 in the source; the model runs a shorter half-turn.
steps == 2

\* scans_per_step = 2 (oversampling)
scans_per_step == 2

\* range(180) in the source; the model sweeps fewer angles.
NumAngles == 2

\* step_angle = 180.0 / steps, in millidegrees
step_angle == (180 * 1000) \div steps

\* Mutation of rotation_deg: the rotation reached after the step's advance
rotation_deg_AfterAdvance(s) == (s + 1) * step_angle

\* rotation_deg = step * step_angle
rotation_deg(s) == s * step_angle

Angles == 0 .. (NumAngles - 1)

\* lidar.out_of_range, the driver's sentinel distance
out_of_range == 32768

Near == 500
Far == 1000
Distances == {Near, Far, out_of_range}

\* Sweeps lidar.get_data() may return: a flat wall, a far wall, a sweep with
\* out-of-range readings on odd angles, and nothing in range at all.
Sweeps ==
    { [a \in Angles |-> Near],
      [a \in Angles |-> IF a = 0 THEN Far ELSE Near],
      [a \in Angles |-> IF a % 2 = 1 THEN out_of_range ELSE Near],
      [a \in Angles |-> out_of_range] }

-----------------------------------------------------------------------------
(* send_motor_cmd: bytes, decoding, token check *)

\* Lines the stage controller may answer with (motor.readline()); the empty
\* line is the read timeout, BadByte is a byte that is not valid UTF-8.
BadByte == "0xFF"
Whitespace == {" ", "\n", "\r"}
Tok_ok == <<"o", "k">>
Tok_rc_ok == <<"r", "c", "_", "o", "k">>
Responses ==
    { <<>>,
      <<"o", "k", "\n">>,
      <<"r", "c", "_", "o", "k", "\r", "\n">>,
      <<"e", "r", "r", "\n">>,
      <<BadByte, "\n">> }

\* bytes.decode(): strict UTF-8, raises UnicodeDecodeError on an invalid byte
Decodable(bytes) == \A i \in 1 .. Len(bytes) : bytes[i] # BadByte

\* str.strip()
RECURSIVE LStrip(_)
LStrip(s) == IF s # <<>> /\ Head(s) \in Whitespace THEN LStrip(Tail(s)) ELSE s
RECURSIVE RStrip(_)
RStrip(s) ==
    IF s # <<>> /\ s[Len(s)] \in Whitespace
    THEN RStrip(SubSeq(s, 1, Len(s) - 1)) ELSE s
Strip(s) == RStrip(LStrip(s))

\* expected in resp (substring test)
Contains(sub, s) ==
    \E i \in 0 .. (Len(s) - Len(sub)) : SubSeq(s, i + 1, i + Len(sub)) = sub

\* send_motor_cmd(cmd, expected) when the controller answers `raw`:
\* raised = decode() raised; logged = the mismatch line was printed.
send_motor_cmd(cmd, expected, raw) ==
    IF ~Decodable(raw)
    THEN [raised |-> TRUE, logged |-> FALSE, resp |-> <<>>]
    ELSE [raised |-> FALSE,
          logged |-> ~Contains(expected, Strip(raw)),
          resp   |-> Strip(raw)]

-----------------------------------------------------------------------------
(* The sampling pass over one sweep, lines 61-69 *)

\* A row of the sample log: [1, angle, distance, rotation_deg]
Row(angle, distance, rot) ==
    [quality |-> 1, angle |-> angle, distance |-> distance, rotation |-> rot]

\* Mutation of IsNew: the seen-set is not consulted
IsNew_NoDedup(measurement_id, seenSet) == TRUE

\* Whether the pair is recorded: not seen before in this step
IsNew(measurement_id, seenSet) == measurement_id \notin seenSet

RECURSIVE ScanAngles(_, _, _, _, _)
ScanAngles(angle, data, rot, seenIn, rowsIn) ==
    IF angle >= NumAngles THEN [seen |-> seenIn, rows |-> rowsIn]
    ELSE LET distance == data[angle]
             measurement_id == <<angle, distance>>
         IN  IF distance = out_of_range
             THEN ScanAngles(angle + 1, data, rot, seenIn, rowsIn)
             ELSE IF IsNew(measurement_id, seenIn)
                  THEN ScanAngles(angle + 1, data, rot,
                                  seenIn \cup {measurement_id},
                                  Append(rowsIn, Row(angle, distance, rot)))
                  ELSE ScanAngles(angle + 1, data, rot, seenIn, rowsIn)

-----------------------------------------------------------------------------
(* The script, statement by statement *)

TryPcs == {"loop_head", "sampling", "poll_sleep", "advance"}

InitCtl ==
    /\ pc = "open_motor"
    /\ motor = "none"
    /\ lidar = "new"
    /\ available = FALSE
    /\ sent = <<>>
    /\ resp = <<>>
    /\ warned = FALSE
    /\ csv_file = "none"
    /\ csv_rows = <<>>
    /\ step = 0
    /\ scans_collected = 0
    /\ seen = {}
    /\ sweeps_read = <<>>
    /\ exc = "none"

\* An exception raised at the current statement: inside the try block the
\* finally clause runs next, anywhere else the script ends there.
Raise(kind) ==
    /\ exc' = kind
    /\ pc' = IF pc \in TryPcs THEN "stop_scan" ELSE "exited"

\* line 8: motor = serial.Serial(...)
OpenMotor ==
    /\ pc = "open_motor"
    /\ \/ /\ motor' = "open"
          /\ pc' = "connect"
          /\ exc' = exc
       \/ /\ Raise("SerialException")
          /\ motor' = motor
    /\ UNCHANGED <<lidar, available, sent, resp, warned, csv_file, csv_rows,
                   step, scans_collected, seen, sweeps_read>>
    /\ UNCHANGED recon_vars

\* lines 20-23: lidar.connect(), exit(1) when it fails
Connect ==
    /\ pc = "connect"
    /\ \/ /\ lidar' = "connected"
          /\ pc' = "start_scan"
          /\ exc' = exc
       \/ /\ lidar' = lidar
          /\ pc' = "exited"
          /\ exc' = "SystemExit"
    /\ UNCHANGED <<motor, available, sent, resp, warned, csv_file, csv_rows,
                   step, scans_collected, seen, sweeps_read>>
    /\ UNCHANGED recon_vars

\* line 25: lidar.start_scan()
StartScan ==
    /\ pc = "start_scan"
    /\ lidar' = "scanning"
    /\ pc' = "settle"
    /\ UNCHANGED <<motor, available, sent, resp, warned, csv_file, csv_rows,
                   step, scans_collected, seen, sweeps_read, exc>>
    /\ UNCHANGED recon_vars

\* line 28: time.sleep(2)
Settle ==
    /\ pc = "settle"
    /\ pc' = "arm"
    /\ UNCHANGED <<motor, lidar, available, sent, resp, warned, csv_file,
                   csv_rows, step, scans_collected, seen, sweeps_read, exc>>
    /\ UNCHANGED recon_vars

\* The write and read of one send_motor_cmd call at the current statement;
\* `next` is the statement that follows when the call returns.
Send(cmd, expected, next) ==
    \E raw \in Responses :
        LET r == send_motor_cmd(cmd, expected, raw)
        IN  /\ sent' = Append(sent, cmd)
            /\ resp' = raw
            /\ warned' = r.logged
            /\ IF r.raised
               THEN Raise("UnicodeDecodeError")
               ELSE pc' = next /\ exc' = exc

\* line 30: send_motor_cmd('R', expected='rc_ok')
Arm ==
    /\ pc = "arm"
    /\ Send("R", Tok_rc_ok, "open_csv")
    /\ UNCHANGED <<motor, lidar, available, csv_file, csv_rows, step,
                   scans_collected, seen, sweeps_read>>
    /\ UNCHANGED recon_vars

\* lines 33-37: open the sample log and write the header row; open() fails
\* when the CSV directory is missing
OpenCsv ==
    /\ pc = "open_csv"
    /\ \/ /\ csv_file' = "open"
          /\ pc' = "loop_head"
          /\ exc' = exc
       \/ /\ Raise("FileNotFoundError")
          /\ csv_file' = csv_file
    /\ UNCHANGED <<motor, lidar, available, sent, resp, warned, csv_rows,
                   step, scans_collected, seen, sweeps_read>>
    /\ UNCHANGED recon_vars

\* lines 47-52: the head of the step loop; line 75 when the range is used up
StepBegin ==
    /\ pc = "loop_head"
    /\ IF step < steps
       THEN /\ seen' = {}
            /\ scans_collected' = 0
            /\ sweeps_read' = Append(sweeps_read, <<>>)
            /\ pc' = "sampling"
       ELSE /\ pc' = "stop_scan"
            /\ UNCHANGED <<seen, scans_collected, sweeps_read>>
    /\ UNCHANGED <<motor, lidar, available, sent, resp, warned, csv_file,
                   csv_rows, step, exc>>
    /\ UNCHANGED recon_vars

\* The driver's reader thread has a new sweep ready
SensorReady ==
    /\ lidar = "scanning"
    /\ pc # "exited"
    /\ ~available
    /\ available' = TRUE
    /\ UNCHANGED <<pc, motor, lidar, sent, resp, warned, csv_file, csv_rows,
                   step, scans_collected, seen, sweeps_read, exc>>
    /\ UNCHANGED recon_vars

\* lines 54-56: sensor not available, the script goes to sleep for 10 ms
Poll ==
    /\ pc = "sampling"
    /\ scans_collected < scans_per_step
    /\ ~available
    /\ pc' = "poll_sleep"
    /\ UNCHANGED <<motor, lidar, available, sent, resp, warned, csv_file,
                   csv_rows, step, scans_collected, seen, sweeps_read, exc>>
    /\ UNCHANGED recon_vars

\* lines 56-57: the sleep is over, continue: the loop condition is tested again
PollWake ==
    /\ pc = "poll_sleep"
    /\ pc' = "sampling"
    /\ UNCHANGED <<motor, lidar, available, sent, resp, warned, csv_file,
                   csv_rows, step, scans_collected, seen, sweeps_read, exc>>
    /\ UNCHANGED recon_vars

\* lines 59-70: one sweep is read and its new in-range pairs are written
Sample ==
    /\ pc = "sampling"
    /\ scans_collected < scans_per_step
    /\ available
    /\ \E data \in Sweeps :
          LET r == ScanAngles(0, data, rotation_deg(step), seen, csv_rows)
          IN  /\ seen' = r.seen
              /\ csv_rows' = r.rows
              /\ sweeps_read' = [sweeps_read EXCEPT
                                   ![step + 1] = Append(@, data)]
    /\ available' = FALSE
    /\ scans_collected' = scans_collected + 1
    /\ UNCHANGED <<pc, motor, lidar, sent, resp, warned, csv_file, step, exc>>
    /\ UNCHANGED recon_vars

\* line 54, condition false: the step has its sweeps
SamplingDone ==
    /\ pc = "sampling"
    /\ ~(scans_collected < scans_per_step)
    /\ pc' = "advance"
    /\ UNCHANGED <<motor, lidar, available, sent, resp, warned, csv_file,
                   csv_rows, step, scans_collected, seen, sweeps_read, exc>>
    /\ UNCHANGED recon_vars

\* lines 72-73: send_motor_cmd('C'), settle, next step
Advance ==
    /\ pc = "advance"
    /\ Send("C", Tok_ok, "loop_head")
    /\ step' = IF pc' = "loop_head" THEN step + 1 ELSE step
    /\ UNCHANGED <<motor, lidar, available, csv_file, csv_rows,
                   scans_collected, seen, sweeps_read>>
    /\ UNCHANGED recon_vars

\* line 79: lidar.stop_scan()
StopScan ==
    /\ pc = "stop_scan"
    /\ lidar' = "stopped"
    /\ available' = FALSE
    /\ pc' = "disconnect"
    /\ UNCHANGED <<motor, sent, resp, warned, csv_file, csv_rows, step,
                   scans_collected, seen, sweeps_read, exc>>
    /\ UNCHANGED recon_vars

\* line 80: lidar.disconnect()
Disconnect ==
    /\ pc = "disconnect"
    /\ lidar' = "disconnected"
    /\ pc' = "disarm"
    /\ UNCHANGED <<motor, available, sent, resp, warned, csv_file, csv_rows,
                   step, scans_collected, seen, sweeps_read, exc>>
    /\ UNCHANGED recon_vars

\* Mutation of Disarm: the finally clause closes the log without disarming
Disarm_Skipped ==
    /\ pc = "disarm"
    /\ pc' = "close_csv"
    /\ UNCHANGED <<motor, lidar, available, sent, resp, warned, csv_file,
                   csv_rows, step, scans_collected, seen, sweeps_read, exc>>
    /\ UNCHANGED recon_vars

\* line 81: send_motor_cmd('D', expected='rc_ok')
Disarm ==
    /\ pc = "disarm"
    /\ Send("D", Tok_rc_ok, "close_csv")
    /\ UNCHANGED <<motor, lidar, available, csv_file, csv_rows, step,
                   scans_collected, seen, sweeps_read>>
    /\ UNCHANGED recon_vars

\* lines 82-84: csv_file.close() and the last messages; the script ends
CloseCsv ==
    /\ pc = "close_csv"
    /\ csv_file' = "closed"
    /\ pc' = "exited"
    /\ UNCHANGED <<motor, lidar, available, sent, resp, warned, csv_rows,
                   step, scans_collected, seen, sweeps_read, exc>>
    /\ UNCHANGED recon_vars

\* An external interrupt (KeyboardInterrupt) delivered at the current statement
Interrupt ==
    /\ pc # "exited"
    /\ Raise("KeyboardInterrupt")
    /\ UNCHANGED <<motor, lidar, available, sent, resp, warned, csv_file,
                   csv_rows, step, scans_collected, seen, sweeps_read>>
    /\ UNCHANGED recon_vars

-----------------------------------------------------------------------------
(* Reconstruction: src/convertAdjust_et_tu_lidar.py (and src/convertAdjust.py).
   Floats are fixed point in hundredths; radians in units of 10^-4. *)

Abs(x) == IF x < 0 THEN -x ELSE x
Sgn(x) == IF x < 0 THEN -1 ELSE 1

\* Product of two fixed-point numbers, rounded toward zero
FMul(a, b) == Sgn(a) * Sgn(b) * ((Abs(a) * Abs(b)) \div 100)

\* pi in units of 10^-4
Pi4 == 31416

\* math.radians(deg): deg in hundredths of a degree -> 10^-4 rad
Radians(deg) == Sgn(deg) * ((Abs(deg) * Pi4) \div 18000)

\* sin and cos on [0, pi/4] by their Taylor polynomials, result in 10^-4
SinTaylor(x) ==
    LET x2 == (x * x) \div 10000
        x3 == (x2 * x) \div 10000
        x5 == (x3 * x2) \div 10000
    IN  x - (x3 \div 6) + (x5 \div 120)
CosTaylor(x) ==
    LET x2 == (x * x) \div 10000
        x4 == (x2 * x2) \div 10000
        x6 == (x4 * x2) \div 10000
    IN  10000 - (x2 \div 2) + (x4 \div 24) - (x6 \div 720)

\* sin on [0, 2 pi) by quadrant reduction, result in 10^-4
SinTurn(r) ==
    LET half == IF r >= Pi4 THEN r - Pi4 ELSE r
        q == IF 2 * half > Pi4 THEN Pi4 - half ELSE half
        v == IF 4 * q <= Pi4 THEN SinTaylor(q) ELSE CosTaylor((Pi4 \div 2) - q)
    IN  IF r >= Pi4 THEN -v ELSE v

\* math.sin / math.cos: radians in 10^-4 -> hundredths (sin is odd, cos even)
Round100(v) == Sgn(v) * ((Abs(v) + 50) \div 100)
Sin(rad) == Sgn(rad) * Round100(SinTurn(Abs(rad) % (2 * Pi4)))
Cos(rad) == Sin(Abs(rad) + (Pi4 \div 2))

\* Mutation of convert_to_cartesian: the counterclockwise branch does not
\* negate the rotation
convert_to_cartesian_SameSense(angle, distance, rotation, clockwise) ==
    LET angle_rad == Radians(angle)
        y == FMul(distance, Sin(angle_rad))
        z0 == FMul(distance, Cos(angle_rad))
        rotation_rad == Radians(rotation)
    IN  <<-FMul(z0, Sin(rotation_rad)), y, FMul(z0, Cos(rotation_rad))>>

\* convert_to_cartesian(angle, distance, rotation, clockwise) -> <<x, y, z>>
convert_to_cartesian(angle, distance, rotation, clockwise) ==
    LET angle_rad == Radians(angle)
        y == FMul(distance, Sin(angle_rad))
        z0 == FMul(distance, Cos(angle_rad))
        rotation_rad == Radians(rotation)
    IN  IF clockwise
        THEN <<-FMul(z0, Sin(rotation_rad)), y, FMul(z0, Cos(rotation_rad))>>
        ELSE <<-FMul(z0, Sin(-rotation_rad)), y, FMul(z0, Cos(-rotation_rad))>>

\* convert_to_cartesian of the older variant (src/convertAdjust.py): no chirality
convert_to_cartesian_v1(angle, distance, rotation) ==
    LET angle_rad == Radians(angle)
        y == FMul(distance, Sin(angle_rad))
        z0 == FMul(distance, Cos(angle_rad))
        rotation_rad == Radians(rotation)
    IN  <<-FMul(z0, Sin(rotation_rad)), y, FMul(z0, Cos(rotation_rad))>>

\* distance_to_color(distance, min_distance, max_distance): the division
\* raises ZeroDivisionError when the two bounds are equal; int() truncates.
distance_to_color(distance, min_distance, max_distance) ==
    LET den == max_distance - min_distance
        num == distance - min_distance
        n == IF num < 0 THEN 0 ELSE IF num > den THEN den ELSE num
    IN  IF den = 0
        THEN [raised |-> TRUE, rgb |-> <<0, 0, 0>>]
        ELSE [raised |-> FALSE,
              rgb |-> << (255 * n) \div den,
                         (255 * (den - Abs(2 * n - den))) \div den,
                         (255 * (den - n)) \div den >>]

\* float(cell) for the cells that occur in the logs; any other cell raises
\* ValueError
IsFloat(cell) == cell \in {"0", "30", "45", "90", "500", "1000", "32768"}
Float(cell) ==
    CASE cell = "0" -> 0
      [] cell = "30" -> 3000
      [] cell = "45" -> 4500
      [] cell = "90" -> 9000
      [] cell = "500" -> 50000
      [] cell = "1000" -> 100000
      [] cell = "32768" -> 3276800

\* The try body of the row loop, lines 66-71: "ok", or the exception raised.
\* row[1], row[2], row[3] are read in that order (columns 2, 3, 4).
RowOutcome(row) ==
    IF Len(row) < 2 THEN "IndexError"
    ELSE IF ~IsFloat(row[2]) THEN "ValueError"
    ELSE IF Len(row) < 3 THEN "IndexError"
    ELSE IF ~IsFloat(row[3]) THEN "ValueError"
    ELSE IF Len(row) < 4 THEN "IndexError"
    ELSE IF ~IsFloat(row[4]) THEN "ValueError"
    ELSE "ok"

\* The row loop, lines 64-73: ValueError is caught and the row skipped, any
\* other exception leaves the loop.
RECURSIVE ReadRows(_, _, _, _)
ReadRows(rows, clockwise, points, distances) ==
    IF rows = <<>>
    THEN [error |-> "none", points |-> points, distances |-> distances]
    ELSE LET row == Head(rows)
             o == RowOutcome(row)
         IN  IF o = "ok"
             THEN ReadRows(Tail(rows), clockwise,
                           Append(points,
                                  convert_to_cartesian(Float(row[2]), Float(row[3]),
                                                       Float(row[4]), clockwise)),
                           Append(distances, Float(row[3])))
             ELSE IF o = "ValueError"
                  THEN ReadRows(Tail(rows), clockwise, points, distances)
                  ELSE [error |-> o, points |-> points, distances |-> distances]

RECURSIVE SeqMin(_)
SeqMin(q) ==
    IF Len(q) = 1 THEN q[1]
    ELSE LET m == SeqMin(Tail(q)) IN IF q[1] < m THEN q[1] ELSE m
RECURSIVE SeqMax(_)
SeqMax(q) ==
    IF Len(q) = 1 THEN q[1]
    ELSE LET m == SeqMax(Tail(q)) IN IF q[1] > m THEN q[1] ELSE m

\* load_csv_data(filepath, clockwise) on a file with these lines:
\* [error, colored_points]; error is "none" or the exception that leaves it.
load_csv_data(lines, clockwise) ==
    IF lines = <<>> THEN [error |-> "StopIteration", colored_points |-> <<>>]
    ELSE LET r == ReadRows(Tail(lines), clockwise, <<>>, <<>>)
         IN  IF r.error # "none"
             THEN [error |-> r.error, colored_points |-> <<>>]
             ELSE IF r.points = <<>>
             THEN [error |-> "ValueError: No valid points", colored_points |-> <<>>]
             ELSE LET min_distance == SeqMin(r.distances)
                      max_distance == SeqMax(r.distances)
                  IN  IF min_distance = max_distance
                      THEN [error |-> "ZeroDivisionError",
                            colored_points |-> <<>>]
                      ELSE [error |-> "none",
                            colored_points |->
                              [i \in 1 .. Len(r.points) |->
                                 r.points[i] \o
                                 distance_to_color(r.distances[i], min_distance,
                                                   max_distance).rgb]]

\* generate_ply(points, filename): the header's vertex count and the data lines
generate_ply(points) ==
    [exists |-> TRUE, vertex_count |-> Len(points), points |-> points]

NoFile == [exists |-> FALSE, vertex_count |-> 0, points |-> <<>>]

\* rotation_suffix
Suffix(clockwise) == IF clockwise THEN "_CW" ELSE "_CCW"

\* str(e) as logged by the except clause of process_and_visualize
ErrorMessage(error) ==
    CASE error = "ValueError: No valid points" ->
             "Error during processing: No valid points found in the CSV file."
      [] error = "ZeroDivisionError" ->
             "Error during processing: float division by zero"
      [] error = "IndexError" ->
             "Error during processing: list index out of range"
      [] error = "StopIteration" -> "Error during processing: "

\* process_and_visualize(csv_file_path, log_message=log_message, clockwise=...)
\* called with the log already holding `tb`
process_and_visualize(tb, clockwise) ==
    LET r == load_csv_data(csv_disk, clockwise)
        tb1 == Append(tb, "Loading CSV data")
    IN  IF r.error # "none"
        THEN /\ text_box' = Append(tb1, ErrorMessage(r.error))
             /\ UNCHANGED <<ply_folder, ply_files, vis_runs>>
        ELSE /\ text_box' = tb1 \o <<"Loaded points", "Ensured the PLY folder exists",
                                     "Generating PLY file", "Generated PLY file",
                                     "Applying voxel downsampling for smoothing...">>
             /\ ply_folder' = TRUE
             /\ ply_files' = [ply_files EXCEPT
                                ![Suffix(clockwise)] = generate_ply(r.colored_points)]
             /\ vis_runs' = vis_runs + 1

\* bound on the GUI events of one session
MaxOps == 2

\* open_csv: the file dialog returns a path or is cancelled
open_csv ==
    /\ ops < MaxOps
    /\ ops' = ops + 1
    /\ \/ /\ current_csv_file' = "CSV/scan.csv"
          /\ process_and_visualize(
                 text_box \o <<"Opening file dialog", "Selected file">>,
                 CLOCKWISE_ROTATION)
       \/ /\ text_box' = Append(text_box, "Opening file dialog")
          /\ UNCHANGED <<current_csv_file, ply_folder, ply_files, vis_runs>>
    /\ UNCHANGED <<csv_disk, CLOCKWISE_ROTATION>>
    /\ UNCHANGED ctl_vars

\* toggle_rotation: flips the flag and re-processes the current file
toggle_rotation ==
    /\ ops < MaxOps
    /\ ops' = ops + 1
    /\ CLOCKWISE_ROTATION' = ~CLOCKWISE_ROTATION
    /\ IF current_csv_file # "none"
       THEN process_and_visualize(
                text_box \o <<"Rotation direction changed",
                              "Re-processing with new rotation direction...">>,
                CLOCKWISE_ROTATION')
       ELSE /\ text_box' = Append(text_box, "Rotation direction changed")
            /\ UNCHANGED <<ply_folder, ply_files, vis_runs>>
    /\ UNCHANGED <<csv_disk, current_csv_file>>
    /\ UNCHANGED ctl_vars

\* reprocess_current
reprocess_current ==
    /\ ops < MaxOps
    /\ ops' = ops + 1
    /\ IF current_csv_file # "none"
       THEN process_and_visualize(
                Append(text_box, "Re-processing current CSV file..."),
                CLOCKWISE_ROTATION)
       ELSE /\ text_box' = Append(text_box, "No CSV file selected.")
            /\ UNCHANGED <<ply_folder, ply_files, vis_runs>>
    /\ UNCHANGED <<csv_disk, CLOCKWISE_ROTATION, current_csv_file>>
    /\ UNCHANGED ctl_vars

\* The rows a sample log may hold
Header == <<"Quality", "Angle (degrees)", "Distance (mm)", "Rotation">>
GoodRows ==
    { <<"1", "90", "1000", "0">>,
      <<"1", "0", "500", "0">>,
      <<"1", "45", "500", "30">> }
SentinelRows == { <<"1", "0", "32768", "0">> }
TextRows ==
    { <<"1", "abc", "500", "0">>,
      <<"1", "90", "500", "">> }
ShortRows == { <<"1", "90">> }
RowSet == GoodRows \cup SentinelRows \cup TextRows \cup ShortRows

\* bound on the data rows of a log
MaxRows == 3

Logs == {<<>>} \cup
        { <<Header>> \o rows :
            rows \in UNION {[1 .. n -> RowSet] : n \in 0 .. MaxRows} }

ReconIdle ==
    /\ CLOCKWISE_ROTATION = TRUE
    /\ current_csv_file = "none"
    /\ text_box = <<>>
    /\ ply_folder = FALSE
    /\ ply_files = [sfx \in {"_CW", "_CCW"} |-> NoFile]
    /\ vis_runs = 0
    /\ ops = 0

-----------------------------------------------------------------------------
(* Specifications *)

\* A scan run: nothing is reconstructed meanwhile
Init ==
    /\ InitCtl
    /\ ReconIdle
    /\ csv_disk = <<>>

Next ==
    \/ OpenMotor
    \/ Connect
    \/ StartScan
    \/ Settle
    \/ Arm
    \/ OpenCsv
    \/ StepBegin
    \/ SensorReady
    \/ Poll
    \/ PollWake
    \/ Sample
    \/ SamplingDone
    \/ Advance
    \/ StopScan
    \/ Disconnect
    \/ Disarm
    \/ CloseCsv
    \/ Interrupt

Spec == Init /\ [][Next]_vars

\* The statements of the script itself: everything but the driver's reader
\* thread and the external interrupt
ScriptStep ==
    \/ OpenMotor
    \/ Connect
    \/ StartScan
    \/ Settle
    \/ Arm
    \/ OpenCsv
    \/ StepBegin
    \/ Poll
    \/ PollWake
    \/ Sample
    \/ SamplingDone
    \/ Advance
    \/ StopScan
    \/ Disconnect
    \/ Disarm
    \/ CloseCsv

\* The interpreter keeps running the script: its next statement is
\* eventually executed.  Nothing is assumed of the sensor.
SpecFair == Init /\ [][Next]_vars /\ WF_vars(ScriptStep)

\* As SpecFair, with a sensor that keeps delivering sweeps while it scans
SpecLive == Init /\ [][Next]_vars /\ WF_vars(ScriptStep) /\ WF_vars(SensorReady)

\* A reconstruction session on one sample log: the scan script is not running
InitRecon ==
    /\ InitCtl
    /\ ReconIdle
    /\ csv_disk \in Logs

NextRecon ==
    \/ open_csv
    \/ toggle_rotation
    \/ reprocess_current

SpecRecon == InitRecon /\ [][NextRecon]_vars

-----------------------------------------------------------------------------
(* Helpers for the properties of the scan controller *)

RECURSIVE Count(_, _)
Count(seq, x) ==
    IF seq = <<>> THEN 0
    ELSE (IF Head(seq) = x THEN 1 ELSE 0) + Count(Tail(seq), x)

\* Positions of x in seq
Positions(seq, x) == {i \in 1 .. Len(seq) : seq[i] = x}

\* The rows of the sample log tagged with step k's rotation
RowsOfStep(k) == SelectSeq(csv_rows, LAMBDA r : r.rotation * steps = k * 180 * 1000)

\* The in-range (angle, distance) pairs the sensor returned in the sweeps
InRangePairs(sweeps) ==
    {<<a, sweeps[i][a]>> : a \in Angles, i \in 1 .. Len(sweeps)}
        \ {<<a, out_of_range>> : a \in Angles}

\* How many rows of `rows` carry the pair
Occurrences(rows, pair) ==
    Cardinality({i \in 1 .. Len(rows) :
                    <<rows[i].angle, rows[i].distance>> = pair})

Succeeded == pc = "exited" /\ exc = "none" /\ csv_file = "closed"

-----------------------------------------------------------------------------
(* C1: cleanup is guaranteed on every exit path: once the stage serial
   connection or the sensor connection has been acquired, however the run
   ends, the disarm command 'D' has been sent, the sensor has been stopped
   and disconnected, and the sample log is not left open. *)
C1_CleanupOnEveryExit ==
    (pc = "exited" /\ (motor = "open" \/ lidar # "new"))
        => /\ "D" \in {sent[i] : i \in 1 .. Len(sent)}
           /\ lidar = "disconnected"
           /\ csv_file # "open"

(* C2: per-step deduplication: in every step begun, each in-range
   (angle, distance) pair of the sweeps read in that step is in the
   sample log exactly once with that step's rotation, nothing else is, and
   a finished step of identical sweeps without out-of-range readings has
   exactly one row per angle. *)
C2_PerStepDedup ==
    \A k \in 1 .. Len(sweeps_read) :
        LET rows == RowsOfStep(k - 1)
            pairs == InRangePairs(sweeps_read[k])
        IN  /\ \A p \in pairs : Occurrences(rows, p) = 1
            /\ \A i \in 1 .. Len(rows) :
                   <<rows[i].angle, rows[i].distance>> \in pairs
            /\ ( /\ Len(sweeps_read[k]) = scans_per_step
                 /\ \A i \in 1 .. Len(sweeps_read[k]) :
                        /\ sweeps_read[k][i] = sweeps_read[k][1]
                        /\ \A a \in Angles : sweeps_read[k][i][a] # out_of_range )
               => Len(rows) = NumAngles

\* Two steps, each of two identical in-range sweeps: the same pairs are in
\* the log once per step.
C2_Witness ==
    /\ Len(sweeps_read) >= 2
    /\ \A k \in 1 .. 2 :
          /\ Len(sweeps_read[k]) = scans_per_step
          /\ \A i \in 1 .. scans_per_step :
                sweeps_read[k][i] = [a \in Angles |-> Near]
          /\ Len(RowsOfStep(k - 1)) = NumAngles

(* C3 as stated: 'R' is sent exactly once and before any 'C' or any row; on
   success 'D' follows the last 'C'; the sensor is released, the stage
   resource released and the log closed only after the disarm; nothing is
   sampled once disarmed. *)
C3_Original ==
    /\ Count(sent, "R") <= 1
    /\ ("C" \in {sent[i] : i \in 1 .. Len(sent)} \/ csv_rows # <<>>)
           => (sent # <<>> /\ sent[1] = "R")
    /\ Succeeded =>
           /\ Count(sent, "D") = 1
           /\ sent[Len(sent)] = "D"
    /\ (exc = "none" /\ lidar \in {"stopped", "disconnected"})
           => Count(sent, "D") >= 1
    /\ motor = "closed" => Count(sent, "D") >= 1
    /\ csv_file = "closed" => Count(sent, "D") >= 1
    /\ Count(sent, "D") >= 1 => pc \in {"close_csv", "exited"}

(* C3 amended: 'R' is sent exactly once and before any 'C' or any row; on
   success the sensor is stopped and disconnected after the last 'C' and
   before the disarm command 'D', which is the last command sent; only
   after the disarm is the sample log closed; the script never closes the
   stage serial port; no row is written once the sensor has been stopped
   or the disarm sent. *)
C3_StateOrder ==
    /\ Count(sent, "R") <= 1
    /\ ("C" \in {sent[i] : i \in 1 .. Len(sent)} \/ csv_rows # <<>>)
           => (sent # <<>> /\ sent[1] = "R")
    /\ Succeeded =>
           /\ Count(sent, "R") = 1
           /\ Count(sent, "D") = 1
           /\ sent[Len(sent)] = "D"
           /\ lidar = "disconnected"
    /\ Count(sent, "D") >= 1 => lidar = "disconnected"
    /\ csv_file = "closed" => Count(sent, "D") >= 1
    /\ motor # "closed"
    /\ Count(sent, "D") >= 1 => pc \in {"close_csv", "exited"}

C3_StepOrder ==
    /\ (lidar \in {"stopped", "disconnected"} \/ Count(sent, "D") >= 1)
           => /\ csv_rows' = csv_rows
              /\ Count(sent', "C") = Count(sent, "C")
    /\ lidar' = "stopped" /\ lidar # "stopped" => Count(sent, "D") = 0

C3_LifecycleOrder == []C3_StateOrder /\ [][C3_StepOrder]_vars

\* A run that completed: armed, every step advanced, sensor released, disarmed, log closed
C3_Witness ==
    /\ Succeeded
    /\ csv_rows # <<>>
    /\ sent = <<"R">> \o [i \in 1 .. steps |-> "C"] \o <<"D">>
    /\ lidar = "disconnected"

(* C4: a response lacking the expected token never aborts the run: whenever
   a command is sent and the line read back does not contain the token
   expected for it, the mismatch is logged and the script is at the
   statement it would reach after a matching acknowledgment. *)
C4_ExpectedOf(cmd) == IF cmd = "C" THEN Tok_ok ELSE Tok_rc_ok
C4_NextOf(cmd) ==
    IF cmd = "R" THEN "open_csv" ELSE IF cmd = "C" THEN "loop_head" ELSE "close_csv"
C4_SendStep ==
    (Len(sent') = Len(sent) + 1
        /\ ~Contains(C4_ExpectedOf(sent'[Len(sent')]), resp'))
    => /\ warned'
       /\ exc' = exc
       /\ pc' = C4_NextOf(sent'[Len(sent')])
       /\ (sent'[Len(sent')] = "C" => step' = step + 1)
C4_AckMismatchNeverAborts == [][C4_SendStep]_vars

(* C10: sampling and rotation never overlap: rows are written only while
   sampling and carry rotation = step * (180 / steps), so rotations lie in
   [0, 180) and never decrease along the log; 'C' is sent only when the
   step has consumed exactly scans_per_step sweeps, once per step; a
   successful run has sent exactly `steps` 'C' commands. *)
C10_State ==
    /\ \A i \in 1 .. Len(csv_rows) :
          /\ csv_rows[i].rotation >= 0
          /\ csv_rows[i].rotation < 180 * 1000
          /\ \E k \in 0 .. (steps - 1) :
                csv_rows[i].rotation * steps = k * 180 * 1000
          /\ i > 1 => csv_rows[i - 1].rotation <= csv_rows[i].rotation
    /\ \A k \in 1 .. Len(sweeps_read) :
          /\ Len(sweeps_read[k]) <= scans_per_step
          /\ k <= Count(sent, "C") => Len(sweeps_read[k]) = scans_per_step
    /\ Count(sent, "C") \in {step, step + 1}
    /\ Count(sent, "C") <= Len(sweeps_read)
    /\ Succeeded => Count(sent, "C") = steps /\ Len(sweeps_read) = steps

C10_Step ==
    /\ csv_rows' # csv_rows =>
          /\ pc = "sampling"
          /\ Len(sweeps_read'[step + 1]) = Len(sweeps_read[step + 1]) + 1
          /\ \A i \in (Len(csv_rows) + 1) .. Len(csv_rows') :
                csv_rows'[i].rotation * steps = step * 180 * 1000
          /\ Count(sent, "C") = step
    /\ Count(sent', "C") > Count(sent, "C") =>
          /\ Count(sent', "C") = Count(sent, "C") + 1
          /\ scans_collected = scans_per_step
          /\ Len(sweeps_read) = step + 1
          /\ Len(sweeps_read[step + 1]) = scans_per_step
          /\ csv_rows' = csv_rows

C10_SamplingBeforeRotation == []C10_State /\ [][C10_Step]_vars

\* The last step has been sampled with rows written and the stage advanced
C10_Witness ==
    /\ Count(sent, "C") = steps
    /\ RowsOfStep(steps - 1) # <<>>
    /\ RowsOfStep(0) # <<>>

-----------------------------------------------------------------------------
(* Helpers for the properties of the reconstruction *)

DataRows == IF csv_disk = <<>> THEN <<>> ELSE Tail(csv_disk)

\* A row whose angle, distance and rotation columns are present and numeric
WellFormedRow(row) ==
    Len(row) >= 4 /\ IsFloat(row[2]) /\ IsFloat(row[3]) /\ IsFloat(row[4])

\* A row carrying the sensor's out-of-range sentinel as its distance
SentinelRow(row) == WellFormedRow(row) /\ Float(row[3]) = out_of_range * 100

\* A valid sample: well formed and not the sentinel
ValidRow(row) == WellFormedRow(row) /\ ~SentinelRow(row)

DistancesOf(rows) == {Float(rows[i][3]) : i \in 1 .. Len(rows)}

\* The current file has been processed, last with the current rotation flag
Processed == current_csv_file # "none"
LastPly == ply_files[Suffix(CLOCKWISE_ROTATION)]
Logged(msg) == \E i \in 1 .. Len(text_box) : text_box[i] = msg
NoMeshSideEffect ==
    /\ ~ply_folder
    /\ \A sfx \in DOMAIN ply_files : ~ply_files[sfx].exists
    /\ vis_runs = 0

(* C5: degenerate colour range: a processed log whose rows are all valid
   and all at one distance raises nothing; its mesh file is written with
   one mid-gradient (green) point per row. *)
C5_DegenerateRange ==
    ( /\ Processed
      /\ DataRows # <<>>
      /\ \A i \in 1 .. Len(DataRows) : ValidRow(DataRows[i])
      /\ Cardinality(DistancesOf(DataRows)) = 1 )
    => /\ ~Logged("Error during processing: float division by zero")
       /\ LastPly.exists
       /\ LastPly.vertex_count = Len(DataRows)
       /\ \A i \in 1 .. Len(LastPly.points) :
              SubSeq(LastPly.points[i], 4, 6) = <<127, 255, 127>>

(* C6: sentinel filtering: for a processed log of well-formed rows whose
   non-sentinel rows span a range of distances, the points written are
   exactly those built from the non-sentinel rows: no point comes from a
   sentinel row and the sentinel does not enter min/max. *)
C6_SentinelFiltered ==
    LET valid == SelectSeq(DataRows, ValidRow)
    IN  ( /\ Processed
          /\ \A i \in 1 .. Len(DataRows) : WellFormedRow(DataRows[i])
          /\ Cardinality(DistancesOf(valid)) >= 2 )
        => /\ LastPly.exists
           /\ LastPly.vertex_count = Len(valid)
           /\ LastPly.points =
                  load_csv_data(<<Header>> \o valid,
                                CLOCKWISE_ROTATION).colored_points

(* C7: empty input is fatal and precedes any mesh write: a processed log
   with a header and no valid sample (every row either fails numeric
   parsing or carries the sentinel) fails with the empty-input error,
   which is logged, and no PLY directory, mesh file or visualization
   results. *)
C7_EmptyInputFatal ==
    ( /\ Processed
      /\ csv_disk # <<>>
      /\ \A i \in 1 .. Len(DataRows) :
             \/ SentinelRow(DataRows[i])
             \/ (Len(DataRows[i]) >= 4 /\ ~WellFormedRow(DataRows[i])) )
    => /\ Logged("Error during processing: No valid points found in the CSV file.")
       /\ NoMeshSideEffect

\* C7, the part that holds: without a valid sample no PLY directory, mesh
\* file or visualization results and an error is logged.
C7_NoMeshWithoutValidSample ==
    ( /\ Processed
      /\ \A i \in 1 .. Len(DataRows) : ~ValidRow(DataRows[i]) )
    => /\ NoMeshSideEffect
       /\ \E i \in 1 .. Len(text_box) :
              text_box[i] \in { ErrorMessage(e) :
                                  e \in {"ValueError: No valid points",
                                         "ZeroDivisionError", "IndexError",
                                         "StopIteration"} }

(* C8: a malformed row is recovered locally: for a processed log whose
   well-formed rows span a range of distances, the points written are
   exactly those built from the well-formed rows in order, whatever
   malformed rows (non-numeric text, missing columns) lie between them. *)
C8_MalformedRowSkipped ==
    LET good == SelectSeq(DataRows, WellFormedRow)
    IN  ( /\ Processed
          /\ Cardinality(DistancesOf(good)) >= 2 )
        => /\ LastPly.exists
           /\ LastPly.points =
                  load_csv_data(<<Header>> \o good,
                                CLOCKWISE_ROTATION).colored_points

(* C9: chirality relation: for every sample of the log, the
   counterclockwise transform equals the clockwise transform of the negated
   rotation: same y and z as the clockwise result and the negated x; at
   rotation 0 the two agree, and transform(0, d, 0, clockwise) = (0, 0, d).
   The older variant is the clockwise transform.  The same relation holds
   between the two mesh files written from one log. *)
C9_Chirality ==
    /\ \A i \in 1 .. Len(DataRows) :
          WellFormedRow(DataRows[i]) =>
             LET a == Float(DataRows[i][2])
                 d == Float(DataRows[i][3])
                 r == Float(DataRows[i][4])
                 cw == convert_to_cartesian(a, d, r, TRUE)
                 ccw == convert_to_cartesian(a, d, r, FALSE)
             IN  /\ ccw = convert_to_cartesian(a, d, -r, TRUE)
                 /\ ccw = <<-cw[1], cw[2], cw[3]>>
                 /\ r = 0 => ccw = cw
                 /\ (a = 0 /\ r = 0) => cw = <<0, 0, d>>
                 /\ convert_to_cartesian_v1(a, d, r) = cw
    /\ (ply_files["_CW"].exists /\ ply_files["_CCW"].exists) =>
          /\ ply_files["_CW"].vertex_count = ply_files["_CCW"].vertex_count
          /\ \A i \in 1 .. Len(ply_files["_CW"].points) :
                LET p == ply_files["_CW"].points[i]
                    q == ply_files["_CCW"].points[i]
                IN  q = <<-p[1]>> \o Tail(p)

\* Both mesh files written from a log with a sample off the rotation axis
C9_Witness ==
    /\ ply_files["_CW"].exists
    /\ ply_files["_CCW"].exists
    /\ \E i \in 1 .. Len(ply_files["_CW"].points) :
          /\ ply_files["_CW"].points[i][1] # 0
          /\ ply_files["_CCW"].points[i][1] = -ply_files["_CW"].points[i][1]

-----------------------------------------------------------------------------
(* C11: a scan run always terminates: whenever the script is in the sampling
   loop (polling or reading) it eventually leaves it, and the run
   eventually ends; the script does not stay in the availability poll
   forever. *)
InSampling == pc \in {"sampling", "poll_sleep"}
C11_RunTerminates ==
    /\ InSampling ~> ~InSampling
    /\ <>(pc = "exited")

\* C11, the part that holds: with a sensor that keeps delivering sweeps the
\* sampling loop is left and the run ends (checked under SpecLive).
C11_TerminatesWithLiveSensor ==
    /\ InSampling ~> ~InSampling
    /\ <>(pc = "exited")

====
